---- MODULE Spec2Model ----
(***************************************************************************)
(* Model of trimesh/voxel/ops.py: conversions between dense boolean voxel  *)
(* grids, sparse index lists and world points, the two fill routines, the  *)
(* sparse boolean operation and box instancing.                            *)
(*                                                                         *)
(* A dense grid is a record [shape |-> <<n, m, p>>, cells |-> S] where S   *)
(* is the set of index triples whose value is True.  A sparse (n, 3)       *)
(* array is modelled by the set of its rows.                               *)
(***************************************************************************)
EXTENDS Integers, Sequences, FiniteSets, TLC

VARIABLES
    \* ---- fill_base (ops.py 34-95), one step per scanned line
    pc,             \* position of fill_base
    sparse_indices, \* its argument, as a set of rows
    max_value,      \* line 52
    grid,           \* line 54-60, set of True cells of the cubic grid
    i, j, k,        \* loop counters of lines 62, 64, 80
    check_dir2,     \* line 63 / 71
    filled,         \* line 92-93, the returned rows
    flagged_rows,   \* history: values of i for which some axis-2 line had
                    \*          c % 4 > 0 and c > 4
    swept_rows,     \* history: values of i for which lines 80-89 ran
    scanned,        \* history: idx of the axis-2 line scanned last and the
                    \*          positions of that line occupied before it
    \* ---- boolean_sparse (ops.py 280-323)
    bpc,            \* "call", "return" or "error"
    a, b,           \* the two coordinate arrays, as sets of rows
    operation,      \* "logical_and" or "logical_or"
    coords,         \* the returned rows
    \* ---- dense grid conversions (ops.py 7-31, 163-191, 326-339, 374-392)
    gpc,            \* position of the conversion pipeline
    matrix,         \* the dense grid given
    points,         \* matrix_to_points(matrix), a sequence of rows
    dense,          \* sparse_to_matrix(points)
    stripped,       \* strip_array(matrix)
    orth,           \* successive results of fill_orthographic
    \* ---- points_to_indices / indices_to_points (ops.py 342-371, 395-429)
    ppc,            \* "points" or "indices": which array is the newest
    pitch, origin,  \* floats
    pts,            \* successive point arrays, pts[1] is the one given
    idxs,           \* successive index arrays
    \* ---- multibox (ops.py 228-277)
    mpc,            \* "call" or "done"
    centers,        \* sequence of rows
    colors,         \* None, one colour, or a sequence of colours
    mesh            \* the arguments handed to Trimesh

fillVars == <<pc, sparse_indices, max_value, grid, i, j, k, check_dir2,
              filled, flagged_rows, swept_rows, scanned>>

boolVars == <<bpc, a, b, operation, coords>>

gridVars == <<gpc, matrix, points, dense, stripped, orth>>

ptsVars == <<ppc, pitch, origin, pts, idxs>>

boxVars == <<mpc, centers, colors, mesh>>

vars == <<fillVars, boolVars, gridVars, ptsVars, boxVars>>

----------------------------------------------------------------------------
(* Bounds of the explored inputs *)

\* largest low corner offset of a box shell given to fill_base
MaxOff == 1
\* largest edge length (in cells) of a box shell given to fill_base
MaxBox == 3
\* largest coordinate of the probe cells given to fill_base
MaxLine == 4
\* largest number of probe cells given to fill_base
MaxProbe == 3
\* largest first coordinate of a row given to boolean_sparse
MaxCoord == 1
\* largest number of rows of an operand of boolean_sparse
MaxRows == 3
\* largest edge length of a dense grid
MaxDim == 3
\* largest number of cells of a dense grid
MaxVol == 27
\* largest number of True cells of a sparsely occupied dense grid
MaxTrue == 2
\* largest number of False cells of a densely occupied dense grid
MaxHoles == 1
\* largest number of successive applications of fill_orthographic
MaxFills == 2
\* a float is modelled by an integer count of units of 1 / Den
Den == 2
\* largest magnitude of a point coordinate, in units of 1 / Den
MaxPt == 2
\* largest origin coordinate, in units of 1 / Den
MaxOrg == 1
\* largest pitch, in units of 1 / Den
MaxPitch == 3
\* largest number of conversions there and back
MaxRounds == 2
\* largest number of centers given to multibox
MaxCenters == 2
\* largest first coordinate of a center
MaxCenterX == 2

----------------------------------------------------------------------------
(* Helpers *)

SetMax(S) == CHOOSE x \in S : \A y \in S : y <= x
SetMin(S) == CHOOSE x \in S : \A y \in S : x <= y

\* the elements of a finite set of integers in ascending order
\* (np.where returns indices in ascending order)
Ascending(S) ==
    [n \in 1..Cardinality(S) |->
        CHOOSE x \in S : Cardinality({y \in S : y < x}) = n - 1]

\* the subsets of S with at most n elements
RECURSIVE SubsetsUpTo(_, _)
SubsetsUpTo(S, n) ==
    IF n = 0
    THEN {{}}
    ELSE LET P == SubsetsUpTo(S, n - 1)
         IN P \cup {T \cup {x} : T \in P, x \in S}

----------------------------------------------------------------------------
(* fill_base *)

\* sparse_indices.max(): the largest entry of the whole array
ArrayMax(rows) == SetMax({r[ax] : r \in rows, ax \in 1..3})

\* np.add(sparse_indices, 1)
Shift(rows) == {<<r[1] + 1, r[2] + 1, r[3] + 1>> : r \in rows}

\* filled = np.column_stack(np.where(grid)); filled -= 1
UnshiftMut(g) == g
Unshift(g) == {<<r[1] - 1, r[2] - 1, r[3] - 1>> : r \in g}

\* idx = np.where(np.logical_not(eq))[0] + 1 for a line of n cells, where
\* line[t] is the value of cell t (0-based): the positions t in 1..n-1 whose
\* cell differs from cell t-1
Transitions(line, n) ==
    Ascending({t \in 1..(n - 1) : line[t - 1] # line[t]})

\* for s in range(0, c - c % 4, 4): line[idx[s]:idx[s + 3]] = 1
\* the positions set to True (idx is 1-based here, the slice end is exclusive)
FillSpansMut(idx) ==
    LET c == Len(idx) IN
    {p \in 0..(max_value - 1) :
        \E s \in 0..(c - 1) :
            /\ s % 4 = 0
            /\ s < c - (c % 4)
            /\ idx[s + 1] <= p
            /\ p < idx[s + 2]}
FillSpansInclusive(idx) ==
    LET c == Len(idx) IN
    {p \in 0..(max_value - 1) :
        \E s \in 0..(c - 1) :
            /\ s % 4 = 0
            /\ s < c - (c % 4)
            /\ idx[s + 1] <= p
            /\ p <= idx[s + 4]}
FillSpans(idx) ==
    LET c == Len(idx) IN
    {p \in 0..(max_value - 1) :
        \E s \in 0..(c - 1) :
            /\ s % 4 = 0
            /\ s < c - (c % 4)
            /\ idx[s + 1] <= p
            /\ p < idx[s + 4]}

\* grid[i, j, :] and grid[i, :, k]
LineAxis2(g, ii, jj) == [t \in 0..(max_value - 1) |-> <<ii, jj, t>> \in g]
LineAxis1(g, ii, kk) == [t \in 0..(max_value - 1) |-> <<ii, t, kk>> \in g]

\* check_dir2 = (c % 4) > 0 and c > 4
Incomplete(c) == (c % 4) > 0 /\ c > 4

\* the surface cells of the box with low corner lo and edge lengths sz
BoxCells(lo, sz) ==
    {<<x, y, z>> : x \in lo[1]..(lo[1] + sz[1] - 1),
                   y \in lo[2]..(lo[2] + sz[2] - 1),
                   z \in lo[3]..(lo[3] + sz[3] - 1)}
BoxShell(lo, sz) ==
    {r \in BoxCells(lo, sz) :
        \E ax \in 1..3 : r[ax] = lo[ax] \/ r[ax] = lo[ax] + sz[ax] - 1}

BoxShells ==
    {BoxShell(lo, sz) : lo \in (0..MaxOff) \X (0..MaxOff) \X (0..MaxOff),
                        sz \in (1..MaxBox) \X (1..MaxBox) \X (1..MaxBox)}

\* cells of one slab on its first and last row, used to build lines with
\* several separate runs
ProbeCells == {<<0, y, z>> : y \in {0, MaxLine}, z \in 0..MaxLine}
Probes == SubsetsUpTo(ProbeCells, MaxProbe)

\* an optional argument is <<>> when it is None and <<value>> otherwise
None == <<>>

\* the state of the operations that a specification does not exercise
PtsIdle ==
    /\ ppc = "idle"
    /\ pitch = 1
    /\ origin = <<0, 0, 0>>
    /\ pts = <<>>
    /\ idxs = <<>>

BoxIdle ==
    /\ mpc = "idle"
    /\ centers = <<>>
    /\ colors = [ndim |-> 0, val |-> <<>>]
    /\ mesh = [vertices |-> <<>>, faces |-> <<>>,
               face_colors |-> [none |-> TRUE, rows |-> <<>>]]

BoolIdle ==
    /\ bpc = "idle"
    /\ a = {}
    /\ b = {}
    /\ operation = "logical_and"
    /\ coords = {}

GridIdle ==
    /\ gpc = "idle"
    /\ matrix = [shape |-> <<1, 1, 1>>, cells |-> {}]
    /\ points = <<>>
    /\ dense = [err |-> FALSE, shape |-> <<0, 0, 0>>, cells |-> {}]
    /\ stripped = [err |-> FALSE, shape |-> <<0, 0, 0>>, cells |-> {},
                   padding |-> <<>>]
    /\ orth = <<>>

FillIdle ==
    /\ pc = "idle"
    /\ sparse_indices = {}
    /\ max_value = 0
    /\ grid = {}
    /\ i = 0
    /\ j = 0
    /\ k = 0
    /\ check_dir2 = FALSE
    /\ filled = {}
    /\ flagged_rows = {}
    /\ swept_rows = {}
    /\ scanned = [idx |-> <<>>, before |-> {}]

FillInit ==
    /\ BoolIdle
    /\ GridIdle
    /\ PtsIdle
    /\ BoxIdle
    /\ pc = "start"
    /\ sparse_indices \in BoxShells \cup Probes
    /\ max_value = 0
    /\ grid = {}
    /\ i = 0
    /\ j = 0
    /\ k = 0
    /\ check_dir2 = FALSE
    /\ filled = {}
    /\ flagged_rows = {}
    /\ swept_rows = {}
    /\ scanned = [idx |-> <<>>, before |-> {}]

\* lines 47-49: util.is_shape(sparse_indices, (-1, 3)) rejects an array
\* without rows (and .max() of line 52 has no value for one)
FillReject ==
    /\ pc = "start"
    /\ sparse_indices = {}
    /\ pc' = "error"
    /\ UNCHANGED <<sparse_indices, max_value, grid, i, j, k, check_dir2,
                   filled, flagged_rows, swept_rows, scanned>>
    /\ UNCHANGED <<boolVars, gridVars, ptsVars, boxVars>>

\* lines 52-63: allocate the grid, mark the shifted cells, enter the loops
FillCreate ==
    /\ pc = "start"
    /\ sparse_indices # {}
    /\ max_value' = ArrayMax(sparse_indices) + 3
    /\ grid' = Shift(sparse_indices)
    /\ i' = 0
    /\ j' = 0
    /\ check_dir2' = FALSE
    /\ pc' = "scan"
    /\ UNCHANGED <<sparse_indices, k, filled, flagged_rows, swept_rows,
                   scanned>>
    /\ UNCHANGED <<boolVars, gridVars, ptsVars, boxVars>>

\* lines 64-75: one iteration of the loop over j
ScanLine ==
    /\ pc = "scan"
    /\ j < max_value - 1
    /\ LET idx == Transitions(LineAxis2(grid, i, j), max_value)
           c == Len(idx)
       IN /\ check_dir2' = Incomplete(c)
          /\ flagged_rows' = IF (c % 4) > 0 /\ c > 4
                             THEN flagged_rows \cup {i}
                             ELSE flagged_rows
          /\ grid' = IF c < 4
                     THEN grid
                     ELSE grid \cup {<<i, j, p>> : p \in FillSpans(idx)}
    /\ j' = j + 1
    /\ scanned' = [idx |-> Transitions(LineAxis2(grid, i, j), max_value),
                    before |-> {p \in 0..(max_value - 1) : <<i, j, p>> \in grid}]
    /\ UNCHANGED <<pc, sparse_indices, max_value, i, k, filled, swept_rows>>
    /\ UNCHANGED <<boolVars, gridVars, ptsVars, boxVars>>

\* advance the loop of line 62 (check_dir2 = False is line 63)
NextRow ==
    /\ i' = i + 1
    /\ j' = 0
    /\ check_dir2' = FALSE
    /\ pc' = IF i + 1 < max_value THEN "scan" ELSE "generate"

\* lines 76-77: if not check_dir2: continue
SkipSweep ==
    /\ pc = "scan"
    /\ j = max_value - 1
    /\ ~check_dir2
    /\ NextRow
    /\ UNCHANGED <<sparse_indices, max_value, grid, k, filled,
                   flagged_rows, swept_rows, scanned>>
    /\ UNCHANGED <<boolVars, gridVars, ptsVars, boxVars>>

\* line 76 falls through to the loop of line 80
BeginSweep ==
    /\ pc = "scan"
    /\ j = max_value - 1
    /\ check_dir2
    /\ pc' = "sweep"
    /\ k' = 0
    /\ swept_rows' = swept_rows \cup {i}
    /\ UNCHANGED <<sparse_indices, max_value, grid, i, j, check_dir2,
                   filled, flagged_rows, scanned>>
    /\ UNCHANGED <<boolVars, gridVars, ptsVars, boxVars>>

\* lines 80-89: one iteration of the loop over k
SweepLine ==
    /\ pc = "sweep"
    /\ k < max_value - 1
    /\ LET idx == Transitions(LineAxis1(grid, i, k), max_value)
           c == Len(idx)
       IN grid' = IF c < 4
                  THEN grid
                  ELSE grid \cup {<<i, p, k>> : p \in FillSpans(idx)}
    /\ k' = k + 1
    /\ UNCHANGED <<pc, sparse_indices, max_value, i, j, check_dir2, filled,
                   flagged_rows, swept_rows, scanned>>
    /\ UNCHANGED <<boolVars, gridVars, ptsVars, boxVars>>

\* the loop of line 80 is exhausted
EndSweep ==
    /\ pc = "sweep"
    /\ k = max_value - 1
    /\ NextRow
    /\ UNCHANGED <<sparse_indices, max_value, grid, k, filled,
                   flagged_rows, swept_rows, scanned>>
    /\ UNCHANGED <<boolVars, gridVars, ptsVars, boxVars>>

\* lines 91-95
Generate ==
    /\ pc = "generate"
    /\ filled' = Unshift(grid)
    /\ pc' = "done"
    /\ UNCHANGED <<sparse_indices, max_value, grid, i, j, k, check_dir2,
                   flagged_rows, swept_rows, scanned>>
    /\ UNCHANGED <<boolVars, gridVars, ptsVars, boxVars>>

FillNext ==
    \/ FillReject
    \/ FillCreate
    \/ ScanLine
    \/ SkipSweep
    \/ BeginSweep
    \/ SweepLine
    \/ EndSweep
    \/ Generate

SpecFill == FillInit /\ [][FillNext]_vars

\* the input is the surface of the box spanned by its own extrema
IsBoxShell(rows) ==
    /\ rows # {}
    /\ LET lo == [n \in 1..3 |-> SetMin({r[n] : r \in rows})]
           hi == [n \in 1..3 |-> SetMax({r[n] : r \in rows})]
       IN rows = BoxShell(lo, [n \in 1..3 |-> hi[n] - lo[n] + 1])

Shell26 == {r \in (0..2) \X (0..2) \X (0..2) : r # <<1, 1, 1>>}
Cube27 == (0..2) \X (0..2) \X (0..2)

\* C1: fill_base of the 26 surface cells of the 3x3x3 cube returns exactly
\* the 27 cells of the cube, centre included, in the unshifted frame.
C1_ShellBecomesCube ==
    (pc = "done" /\ sparse_indices = Shell26) => filled = Cube27

C1_Witness ==
    /\ pc = "done"
    /\ sparse_indices = Shell26
    /\ <<1, 1, 1>> \in filled
    /\ Cardinality(filled) = 27

\* C9: for the surface cells of an axis-aligned box, the cells fill_base
\* returns contain every input cell and are at least as many.
C9_ShellContained ==
    (pc = "done" /\ IsBoxShell(sparse_indices)) =>
        /\ sparse_indices \subseteq filled
        /\ Cardinality(filled) >= Cardinality(sparse_indices)

C9_Witness ==
    /\ pc = "done"
    /\ IsBoxShell(sparse_indices)
    /\ sparse_indices \subseteq filled
    /\ Cardinality(filled) > Cardinality(sparse_indices)
    /\ <<0, 0, 0>> \notin sparse_indices

\* the decision of line 76 has been taken for row r
RowDecided(r) ==
    \/ pc \in {"scan", "sweep", "generate", "done"} /\ r < i
    \/ pc = "sweep" /\ r = i

\* C10: for each first index i the sweep along axis 1 is performed if and
\* only if at least one axis-2 line (i, j) scanned for that i had a
\* transition count c with c % 4 != 0 and c > 4, whichever j it was.
C10_SweepIffAnyLineFlagged ==
    \A r \in 0..(max_value - 1) :
        RowDecided(r) => (r \in swept_rows <=> r \in flagged_rows)

\* an axis-2 line of the current row has just been scanned
LineScanned == pc = "scan" /\ j > 0

\* the positions of that line occupied now
ScannedAfter == {p \in 0..(max_value - 1) : <<i, j - 1, p>> \in grid}

\* the offsets s = 0, 4, 8, ... of the groups of 4 transitions of that line
ScannedGroups ==
    {s \in 0..(Len(scanned.idx) - 1) :
        s % 4 = 0 /\ s + 4 <= Len(scanned.idx)}

\* C11 as stated: on a line with c >= 4 transitions every group of 4
\* starting at offset s marks the cells from transition[s] up to and
\* including transition[s+3]; a line with c < 4 is left unchanged.
C11_SpanIncludesLastTransition ==
    LineScanned =>
        /\ \A s \in ScannedGroups :
               \A p \in (scanned.idx[s + 1])..(scanned.idx[s + 4]) :
                   p \in ScannedAfter
        /\ Len(scanned.idx) < 4 => ScannedAfter = scanned.before

\* C11: on a line with c >= 4 transitions every group of 4 starting at
\* offset s marks the cells from transition[s] up to but not including
\* transition[s+3], whose own cell stays unoccupied; a line with c < 4 is
\* left unchanged.
C11_SpanExcludesLastTransition ==
    LineScanned =>
        /\ \A s \in ScannedGroups :
               /\ \A p \in (scanned.idx[s + 1])..(scanned.idx[s + 4] - 1) :
                      p \in ScannedAfter
               /\ scanned.idx[s + 4] \notin ScannedAfter
        /\ Len(scanned.idx) < 4 => ScannedAfter = scanned.before

C11_Witness ==
    /\ LineScanned
    /\ Len(scanned.idx) = 6
    /\ ScannedAfter # scanned.before
    /\ scanned.idx[4] \notin ScannedAfter
    /\ scanned.idx[4] - 1 \in ScannedAfter

C11_WitnessUnchanged ==
    /\ LineScanned
    /\ Len(scanned.idx) = 2
    /\ ScannedAfter = scanned.before

----------------------------------------------------------------------------
(* boolean_sparse *)

\* a.min(axis=0), a.max(axis=0), b.min(axis=0), b.max(axis=0) have a value
\* only for arrays with at least one row; numpy raises ValueError otherwise
HasExtremaMut(x, y) == x # {}
HasExtrema(x, y) == x # {} /\ y # {}

\* extrema.min(axis=0) and extrema.max(axis=0): per axis over both arrays
ExtremaMin(x, y) == [n \in 1..3 |-> SetMin({r[n] : r \in x \cup y})]
ExtremaMax(x, y) == [n \in 1..3 |-> SetMax({r[n] : r \in x \cup y})]

\* origin = extrema.min(axis=0) - 1
Origin(x, y) == [n \in 1..3 |-> ExtremaMin(x, y)[n] - 1]

\* size = tuple(extrema.ptp(axis=0) + 2)
Size(x, y) == [n \in 1..3 |-> ExtremaMax(x, y)[n] - ExtremaMin(x, y)[n] + 2]

\* sparse.COO((rows - origin).T, data=ones, shape=size): the True cells of
\* a boolean tensor of the given shape
COO(rows, org, size) ==
    [shape |-> size,
     cells |-> {<<r[1] - org[1], r[2] - org[2], r[3] - org[3]>> :
                    r \in rows}]

\* operation(sp_a, sp_b), element-wise on tensors of one shape
Applied(op, sp_a, sp_b) ==
    [shape |-> sp_a.shape,
     cells |-> IF op = "logical_and"
               THEN sp_a.cells \cap sp_b.cells
               ELSE sp_a.cells \cup sp_b.cells]

\* coords = np.column_stack(applied.coords) + origin
RestoreMut(cells, org) == cells
Restore(cells, org) ==
    {<<r[1] + org[1], r[2] + org[2], r[3] + org[3]>> : r \in cells}

boolean_sparse(x, y, op) ==
    LET org == Origin(x, y)
        size == Size(x, y)
        sp_a == COO(x, org, size)
        sp_b == COO(y, org, size)
    IN Restore(Applied(op, sp_a, sp_b).cells, org)

BoolCells == {<<x, y, 2>> : x \in (-1)..MaxCoord, y \in 0..1}
BoolRows == SubsetsUpTo(BoolCells, MaxRows)

BoolInit ==
    /\ FillIdle
    /\ GridIdle
    /\ PtsIdle
    /\ BoxIdle
    /\ bpc = "call"
    /\ a \in BoolRows
    /\ b \in BoolRows
    /\ operation \in {"logical_and", "logical_or"}
    /\ coords = {}

\* lines 302-305 raise for an operand without rows
BoolRaise ==
    /\ bpc = "call"
    /\ ~HasExtrema(a, b)
    /\ bpc' = "error"
    /\ UNCHANGED <<a, b, operation, coords>>
    /\ UNCHANGED <<fillVars, gridVars, ptsVars, boxVars>>

\* lines 302-323
BoolReturn ==
    /\ bpc = "call"
    /\ HasExtrema(a, b)
    /\ coords' = boolean_sparse(a, b, operation)
    /\ bpc' = "return"
    /\ UNCHANGED <<a, b, operation>>
    /\ UNCHANGED <<fillVars, gridVars, ptsVars, boxVars>>

BoolNext ==
    \/ BoolRaise
    \/ BoolReturn

SpecBool == BoolInit /\ [][BoolNext]_vars

\* C2: for non-empty A and B the intersection lies in A and in B, the
\* union contains A and B, and the intersection of A with itself is A, all
\* in the original frame.
C2_SetAlgebra ==
    (bpc = "return" /\ a # {} /\ b # {}) =>
        /\ operation = "logical_and" =>
                coords \subseteq a /\ coords \subseteq b
        /\ operation = "logical_or" =>
                a \subseteq coords /\ b \subseteq coords
        /\ (operation = "logical_and" /\ a = b) => coords = a

C2_Witness ==
    /\ bpc = "return"
    /\ operation = "logical_and"
    /\ a = b
    /\ coords = a
    /\ Cardinality(a) >= 2
    /\ \E r \in a : r[1] < 0

\* C7: boolean_sparse ends in an error, not a result, whenever a or b has
\* no rows, for both operations.
C7_EmptyOperandRaises ==
    (bpc # "call" /\ (a = {} \/ b = {})) => bpc = "error"

C7_Witness ==
    /\ bpc = "error"
    /\ a # {}
    /\ b = {}
    /\ operation = "logical_or"

----------------------------------------------------------------------------
(* indices_to_points, matrix_to_points, sparse_to_matrix *)

\* the cells of a grid of the given shape
Box(shape) ==
    {<<x, y, z>> : x \in 0..(shape[1] - 1),
                   y \in 0..(shape[2] - 1),
                   z \in 0..(shape[3] - 1)}

\* np.column_stack(np.nonzero(matrix)): the True cells in row-major order
Nonzero(m) ==
    LET key(r) == (r[1] * m.shape[2] + r[2]) * m.shape[3] + r[3]
        ks == Ascending({key(r) : r \in m.cells})
    IN [n \in 1..Len(ks) |-> CHOOSE r \in m.cells : key(r) = ks[n]]

\* points = np.array(indices, dtype=np.float64); points *= float(pitch);
\* points += origin.  indices are integers, pitch and origin are floats
indices_to_points(indices, p, o) ==
    [n \in 1..Len(indices) |->
        [ax \in 1..3 |->
            LET scaled == IF p = None
                          THEN indices[n][ax] * Den
                          ELSE indices[n][ax] * p[1]
            IN IF o = None THEN scaled ELSE scaled + o[1][ax]]]

\* lines 388-391
matrix_to_points(m, p, o) ==
    indices_to_points(Nonzero(m), p, o)

\* np.asanyarray(x, dtype=np.int) of a float: truncation towards zero
AsInt(q) == IF q >= 0 THEN q \div Den ELSE -((-q) \div Den)

\* multiplier = np.array([np.product(shape[1:]), shape[2], 1])
MultiplierMut(shape) == <<shape[2] * shape[3], shape[2], 1>>
Multiplier(shape) == <<shape[2] * shape[3], shape[3], 1>>

\* matrix.reshape(shape): the cell of flat position f
Unravel(f, shape) ==
    <<f \div (shape[2] * shape[3]), (f \div shape[3]) % shape[2],
      f % shape[3]>>

\* lines 179-191; an array without rows has no max(axis=0) (and is
\* rejected by util.is_shape before that): ValueError
sparse_to_matrix(sparse) ==
    IF Len(sparse) = 0
    THEN [err |-> TRUE, shape |-> <<0, 0, 0>>, cells |-> {}]
    ELSE LET rows == {[ax \in 1..3 |-> AsInt(sparse[n][ax])] :
                          n \in 1..Len(sparse)}
             shape == [ax \in 1..3 |-> SetMax({r[ax] : r \in rows}) + 1]
             multiplier == Multiplier(shape)
             index == {r[1] * multiplier[1] + r[2] * multiplier[2]
                          + r[3] * multiplier[3] : r \in rows}
         IN [err |-> FALSE,
             shape |-> shape,
             cells |-> {Unravel(f, shape) :
                           f \in index \cap
                                 (0..(shape[1] * shape[2] * shape[3] - 1))}]

----------------------------------------------------------------------------
(* strip_array *)

\* indices, = np.nonzero(np.any(data, axis=<all axes but dim>))
Occupied(m, dim) == {r[dim] : r \in m.cells}

\* slice(pad_left, pad_right): the positions kept along one axis
Kept(pad_left, pad_right) == pad_left..(pad_right - 1)

\* lines 327-339; indices[0] of an all-False array raises IndexError
strip_array(m) ==
    IF m.cells = {}
    THEN [err |-> TRUE, shape |-> <<0, 0, 0>>, cells |-> {},
          padding |-> <<>>]
    ELSE LET padding == [dim \in 1..3 |->
                            <<SetMin(Occupied(m, dim)),
                              SetMax(Occupied(m, dim))>>]
             kept == [dim \in 1..3 |-> Kept(padding[dim][1], padding[dim][2])]
         IN [err |-> FALSE,
             shape |-> [dim \in 1..3 |-> Cardinality(kept[dim])],
             cells |-> {<<r[1] - padding[1][1], r[2] - padding[2][1],
                          r[3] - padding[3][1]>> :
                           r \in {c \in m.cells :
                                     \A dim \in 1..3 : c[dim] \in kept[dim]}},
             padding |-> padding]

----------------------------------------------------------------------------
(* fill_orthographic *)

\* the True cells of the line through cell r parallel to the axis
LineCells(cells, r, axis) ==
    {c \in cells : \A ax \in 1..3 : ax # axis => c[ax] = r[ax]}

\* mins: empty cells count as shape[axis]; maxs: empty cells count as -1
Mins(m, r, axis) ==
    SetMin({c[axis] : c \in LineCells(m.cells, r, axis)} \cup {m.shape[axis]})
Maxs(m, r, axis) ==
    SetMax({c[axis] : c \in LineCells(m.cells, r, axis)} \cup {-1})

\* lines 14-26
fill_axisMut(m, axis) ==
    {r \in Box(m.shape) : r[axis] >= Mins(m, r, axis)
                          /\ r[axis] < Maxs(m, r, axis)}
fill_axis(m, axis) ==
    {r \in Box(m.shape) : r[axis] >= Mins(m, r, axis)
                          /\ r[axis] <= Maxs(m, r, axis)}

\* lines 28-31
fill_orthographic(m) ==
    [shape |-> m.shape,
     cells |-> fill_axis(m, 1) \cap fill_axis(m, 2) \cap fill_axis(m, 3)]

----------------------------------------------------------------------------
(* dense grids given to the conversions *)

Shapes ==
    {sh \in (1..MaxDim) \X (1..MaxDim) \X (1..MaxDim) :
        sh[1] * sh[2] * sh[3] <= MaxVol}

\* the sets of at most n flat positions below v
RECURSIVE FlatSubsets(_, _)
FlatSubsets(v, n) ==
    IF n = 0
    THEN {{}}
    ELSE LET P == FlatSubsets(v, n - 1)
         IN P \cup UNION {
                {T \cup {x} : x \in (IF T = {} THEN 0 ELSE SetMax(T) + 1)..(v - 1)}
                : T \in {U \in P : Cardinality(U) = n - 1}}

\* the sets of at most n cells of a grid of the given shape
CellSubsets(sh, n) ==
    {{Unravel(f, sh) : f \in T} : T \in FlatSubsets(sh[1] * sh[2] * sh[3], n)}

\* the cells of a grid that lie on one of its six sides
Surface(sh) ==
    {r \in Box(sh) : \E ax \in 1..3 : r[ax] = 0 \/ r[ax] = sh[ax] - 1}

\* grids of one shape: few True cells, few False cells, or the hollow
\* surface with few of its cells missing
Grids(sh) ==
    {[shape |-> sh, cells |-> S] : S \in CellSubsets(sh, MaxTrue)}
    \cup
    {[shape |-> sh, cells |-> Box(sh) \ H] : H \in CellSubsets(sh, MaxHoles)}
    \cup
    {[shape |-> sh, cells |-> Surface(sh) \ H] : H \in CellSubsets(sh, MaxHoles)}

GridInit ==
    /\ FillIdle
    /\ BoolIdle
    /\ PtsIdle
    /\ BoxIdle
    /\ gpc = "ready"
    /\ \E sh \in Shapes : matrix \in Grids(sh)
    /\ points = <<>>
    /\ dense = [err |-> FALSE, shape |-> <<0, 0, 0>>, cells |-> {}]
    /\ stripped = [err |-> FALSE, shape |-> <<0, 0, 0>>, cells |-> {},
                   padding |-> <<>>]
    /\ orth = <<>>

\* matrix_to_points(matrix) with no pitch and no origin
MatrixToPoints ==
    /\ gpc = "ready"
    /\ points' = matrix_to_points(matrix, None, None)
    /\ gpc' = "points"
    /\ UNCHANGED <<matrix, dense, stripped, orth>>
    /\ UNCHANGED <<fillVars, boolVars, ptsVars, boxVars>>

\* sparse_to_matrix of those points
SparseToMatrix ==
    /\ gpc = "points"
    /\ dense' = sparse_to_matrix(points)
    /\ gpc' = "dense"
    /\ UNCHANGED <<matrix, points, stripped, orth>>
    /\ UNCHANGED <<fillVars, boolVars, ptsVars, boxVars>>

StripArray ==
    /\ gpc = "ready"
    /\ stripped' = strip_array(matrix)
    /\ gpc' = "stripped"
    /\ UNCHANGED <<matrix, points, dense, orth>>
    /\ UNCHANGED <<fillVars, boolVars, ptsVars, boxVars>>

\* fill_orthographic of the grid, then of its own result
FillOrthographic ==
    /\ gpc \in {"ready", "orth"}
    /\ Len(orth) < MaxFills
    /\ orth' = Append(orth, fill_orthographic(
                    IF orth = <<>> THEN matrix ELSE orth[Len(orth)]))
    /\ gpc' = "orth"
    /\ UNCHANGED <<matrix, points, dense, stripped>>
    /\ UNCHANGED <<fillVars, boolVars, ptsVars, boxVars>>

GridNext ==
    \/ MatrixToPoints
    \/ SparseToMatrix
    \/ StripArray

SpecGrid == GridInit /\ [][GridNext]_vars

OrthNext == FillOrthographic

SpecOrth == GridInit /\ [][OrthNext]_vars

\* per axis, the largest occupied index plus one
TightShape(m) == [ax \in 1..3 |-> SetMax({r[ax] : r \in m.cells}) + 1]

\* C3 as stated: for any dense grid, sparse_to_matrix of the indices of its
\* True cells is a grid with the same True cells.
C3_RoundTripAnyGrid ==
    gpc = "dense" => (~dense.err /\ dense.cells = matrix.cells)

\* C3: for a dense grid with at least one True cell, sparse_to_matrix of
\* the indices of its True cells is a grid with the same True cells whose
\* shape per axis is the largest occupied index plus one.
C3_RoundTripOccupied ==
    (gpc = "dense" /\ matrix.cells # {}) =>
        /\ ~dense.err
        /\ dense.cells = matrix.cells
        /\ dense.shape = TightShape(matrix)

C3_Witness ==
    /\ gpc = "dense"
    /\ Cardinality(matrix.cells) >= 2
    /\ dense.cells = matrix.cells
    /\ dense.shape # matrix.shape
    /\ dense.shape[2] # dense.shape[3]

\* C4: strip_array crops every axis to the range from the smallest to the
\* largest index holding a True value, both included, so that every True
\* cell of the input is in the cropped array at its index minus the low
\* offset of the padding.
C4_StripKeepsTrueCells ==
    (gpc = "stripped" /\ ~stripped.err) =>
        /\ \A dim \in 1..3 :
               stripped.shape[dim] =
                   stripped.padding[dim][2] - stripped.padding[dim][1] + 1
        /\ \A r \in matrix.cells :
               <<r[1] - stripped.padding[1][1], r[2] - stripped.padding[2][1],
                 r[3] - stripped.padding[3][1]>> \in stripped.cells

\* every axis-parallel line's True cells form one contiguous run
IsFilled(m) ==
    \A axis \in 1..3 : \A r \in m.cells : \A c \in LineCells(m.cells, r, axis) :
        \A t \in (r[axis])..(c[axis]) :
            [r EXCEPT ![axis] = t] \in m.cells

\* C5: fill_orthographic applied to its own result returns that result,
\* and applied to an already filled grid returns the grid.
C5_OrthographicIdempotent ==
    /\ \A n \in 2..Len(orth) : orth[n] = orth[n - 1]
    /\ (Len(orth) >= 1 /\ IsFilled(matrix)) => orth[1] = matrix

C5_Witness ==
    /\ Len(orth) >= 2
    /\ orth[1] # matrix
    /\ orth[2] = orth[1]
    /\ ~IsFilled(matrix)

C5_WitnessFilled ==
    /\ Len(orth) >= 1
    /\ IsFilled(matrix)
    /\ Cardinality(matrix.cells) >= 2
    /\ orth[1] = matrix

----------------------------------------------------------------------------
(* points_to_indices *)

\* np.round of the quotient num / den, den > 0: to the nearest integer,
\* halves to the even one
RoundMut(num, den) ==
    IF num >= 0 THEN num \div den ELSE -((-num) \div den)
Round(num, den) ==
    LET fl == num \div den
        rem == num % den
    IN IF 2 * rem < den THEN fl
       ELSE IF 2 * rem > den THEN fl + 1
       ELSE IF fl % 2 = 0 THEN fl ELSE fl + 1

\* lines 417-429: points -= origin; points /= pitch;
\* indices = np.round(points).astype(int)
points_to_indices(ps, p, o) ==
    [n \in 1..Len(ps) |->
        [ax \in 1..3 |->
            LET moved == IF o = None
                         THEN ps[n][ax]
                         ELSE ps[n][ax] - o[1][ax]
            IN Round(moved, p[1])]]

PtCoords == (-MaxPt)..MaxPt
OrgCoords == 0..MaxOrg

PtsInit ==
    /\ FillIdle
    /\ BoolIdle
    /\ GridIdle
    /\ BoxIdle
    /\ ppc = "points"
    /\ pitch \in 1..MaxPitch
    /\ origin \in OrgCoords \X OrgCoords \X OrgCoords
    /\ pts \in {<< <<row>> >> : row \in PtCoords \X PtCoords \X PtCoords}
    /\ idxs = <<>>

PointsToIndices ==
    /\ ppc = "points"
    /\ Len(idxs) < MaxRounds
    /\ idxs' = Append(idxs, points_to_indices(pts[Len(pts)], <<pitch>>, <<origin>>))
    /\ ppc' = "indices"
    /\ UNCHANGED <<pitch, origin, pts>>
    /\ UNCHANGED <<fillVars, boolVars, gridVars, boxVars>>

IndicesToPoints ==
    /\ ppc = "indices"
    /\ pts' = Append(pts, indices_to_points(idxs[Len(idxs)], <<pitch>>, <<origin>>))
    /\ ppc' = "points"
    /\ UNCHANGED <<pitch, origin, idxs>>
    /\ UNCHANGED <<fillVars, boolVars, gridVars, boxVars>>

PtsNext ==
    \/ PointsToIndices
    \/ IndicesToPoints

SpecPts == PtsInit /\ [][PtsNext]_vars

Abs(x) == IF x >= 0 THEN x ELSE -x

\* C6 as stated: the points converted to indices and back are the points
\* rounded to the nearest multiple of the pitch, and converting that
\* result again leaves it unchanged.
C6_NearestMultipleOfPitch ==
    /\ Len(pts) >= 2 =>
           \A ax \in 1..3 :
               /\ pts[2][1][ax] % pitch = 0
               /\ 2 * Abs(pts[2][1][ax] - pts[1][1][ax]) <= pitch
    /\ \A n \in 3..Len(pts) : pts[n] = pts[n - 1]

\* C6: the points converted to indices and back are the points moved to
\* the nearest point of the lattice origin + pitch * n (n an integer), at
\* most half a pitch away on every axis, and converting that result again
\* leaves it unchanged.
C6_NearestLatticePoint ==
    /\ Len(pts) >= 2 =>
           \A ax \in 1..3 :
               /\ (pts[2][1][ax] - origin[ax]) % pitch = 0
               /\ 2 * Abs(pts[2][1][ax] - pts[1][1][ax]) <= pitch
    /\ \A n \in 3..Len(pts) : pts[n] = pts[n - 1]

C6_Witness ==
    /\ Len(pts) >= 3
    /\ pts[2] # pts[1]
    /\ pts[3] = pts[2]
    /\ \E ax \in 1..3 : origin[ax] % pitch # 0
    /\ \E ax \in 1..3 : 2 * Abs(pts[2][1][ax] - pts[1][1][ax]) = pitch

----------------------------------------------------------------------------
(* multibox *)

\* primitives.Box(): the corners of the unit box about the origin, in
\* units of half an edge, and its 12 triangles
BoxVertices ==
    << <<-1, -1, -1>>, <<-1, -1, 1>>, <<-1, 1, -1>>, <<-1, 1, 1>>,
       <<1, -1, -1>>, <<1, -1, 1>>, <<1, 1, -1>>, <<1, 1, 1>> >>
BoxFaces ==
    << <<1, 3, 0>>, <<4, 1, 0>>, <<0, 3, 2>>, <<2, 4, 0>>,
       <<1, 7, 3>>, <<5, 1, 4>>, <<5, 7, 1>>, <<3, 7, 2>>,
       <<6, 4, 2>>, <<2, 7, 6>>, <<6, 5, 4>>, <<7, 5, 6>> >>

\* v = np.tile(centers, (1, len(b.vertices))).reshape((-1, 3))
\* v += np.tile(b.vertices, (len(centers), 1))
\* row r (0-based) of the result, in units of half an edge
Vertices(cs) ==
    [n \in 1..(Len(cs) * Len(BoxVertices)) |->
        LET r == n - 1
            c == cs[(r \div Len(BoxVertices)) + 1]
            bv == BoxVertices[(r % Len(BoxVertices)) + 1]
        IN <<2 * c[1] + bv[1], 2 * c[2] + bv[2], 2 * c[3] + bv[3]>>]

\* np.tile(np.arange(len(centers)) * len(b.vertices),
\*         (len(b.faces), 1)).T.reshape((-1, 1)): entry r (0-based)
FaceOffsetMut(r, n) == (r % n) * Len(BoxVertices)
FaceOffset(r, n) == (r \div Len(BoxFaces)) * Len(BoxVertices)

\* f = np.tile(b.faces, (len(centers), 1)); f += <the offsets>
Faces(cs) ==
    [n \in 1..(Len(cs) * Len(BoxFaces)) |->
        LET r == n - 1
            bf == BoxFaces[(r % Len(BoxFaces)) + 1]
            off == FaceOffset(r, Len(cs))
        IN <<bf[1] + off, bf[2] + off, bf[3] + off>>]

\* the colors argument: [ndim |-> 0, val |-> <<>>] is None,
\* [ndim |-> 1, val |-> <<c>>] is the colour c alone, and
\* [ndim |-> 2, val |-> q] is the sequence q of colours
NoColors == [ndim |-> 0, val |-> <<>>]
NoFaceColors == [none |-> TRUE, rows |-> <<>>]

\* lines 265-271
FaceColors(cs, col) ==
    IF col.ndim = 0
    THEN NoFaceColors
    ELSE LET two == IF col.ndim = 1
                    THEN [n \in 1..Len(cs) |-> col.val[1]]
                    ELSE col.val
         IN IF Len(two) = Len(cs)
            THEN [none |-> FALSE,
                  rows |-> [n \in 1..(Len(two) * 12) |->
                               two[((n - 1) \div 12) + 1]]]
            ELSE NoFaceColors

\* lines 247-277
multibox(cs, col) ==
    [vertices |-> Vertices(cs),
     faces |-> Faces(cs),
     face_colors |-> FaceColors(cs, col)]

RECURSIVE SeqsUpTo(_, _)
SeqsUpTo(S, n) ==
    IF n = 0
    THEN {<<>>}
    ELSE LET P == SeqsUpTo(S, n - 1)
         IN P \cup {Append(q, x) : q \in P, x \in S}

Red == <<1, 0, 0>>
Green == <<0, 1, 0>>

CenterRows == {<<x, 0, 0>> : x \in 0..MaxCenterX}

ColorArgs ==
    {NoColors}
    \cup {[ndim |-> 1, val |-> <<c>>] : c \in {Red, Green}}
    \cup {[ndim |-> 2, val |-> q] : q \in SeqsUpTo({Red, Green}, MaxCenters)}

BoxInit ==
    /\ FillIdle
    /\ BoolIdle
    /\ GridIdle
    /\ PtsIdle
    /\ mpc = "call"
    /\ centers \in SeqsUpTo(CenterRows, MaxCenters)
    /\ colors \in ColorArgs
    /\ mesh = [vertices |-> <<>>, faces |-> <<>>, face_colors |-> NoFaceColors]

Multibox ==
    /\ mpc = "call"
    /\ mesh' = multibox(centers, colors)
    /\ mpc' = "done"
    /\ UNCHANGED <<centers, colors>>
    /\ UNCHANGED <<fillVars, boolVars, gridVars, ptsVars>>

BoxNext == Multibox

SpecBox == BoxInit /\ [][BoxNext]_vars

====
